---- MODULE Spec2Model ----
(***************************************************************************)
(* The sample-scaffolding workflow of pkg/samples/samples.go as a state    *)
(* machine: Initialize (cache sync and descriptor parse), SelectOptions    *)
(* (variant selection, gap-check, provisioning of required resources) and  *)
(* the profile ledger that survives from one invocation of the CLI to the  *)
(* next, followed by Copy and ConfigureDotEnv; DeleteCache is an           *)
(* invocation of its own.  Collaborators (file system, git, prompt, HTTP,  *)
(* profile store) answer nondeterministically; the calls of an operation   *)
(* are in `trace`.  The gRPC interceptors of pkg/rpcservice/middleware.go  *)
(* are a second machine (SpecRPC) over the log of the calls they served.   *)
(***************************************************************************)
EXTENDS Integers, Sequences, FiniteSets, TLC

\* ------------------------------------------------------------------ bounds
MaxIntegrations == 2
MaxOptions == 2
MaxRefs == 2
MaxRuns == 2
MaxCalls == 2

\* --------------------------------------------------------------- constants
BasicName == "stripe_samples_price_recurring_basic_id"
ProName == "stripe_samples_price_recurring_pro_id"
UnknownName == "stripe_samples_not_in_catalog"

\* Error values of the collaborators.  "" is Go's nil error.
NoErrAlreadyUpToDate == "already up-to-date"
ErrPull == "pull failed"
ErrClone == "clone failed"
ErrCacheFolder == "cache folder unavailable"
ErrNotExist == "file does not exist"
ErrPermission == "permission denied"
ErrReadFile == "descriptor unreadable"
ErrUnmarshal == "descriptor malformed"
ErrPrompt == "prompt aborted"
ErrAPIKey == "no api key"
ErrRequest == "request failed"
ErrBody == "response body is not JSON"
ErrNoID == "Unexpected response from stripe API, did not contain ID"
ErrUnknownResource == "Unexpected: tried to create unknown required resource"
ErrWrite == "config write failed"
ErrCopy == "copy failed"
ErrGetFiles == "directory listing failed"
ErrOpen == "open .env.example failed"
ErrParse == ".env.example malformed"
ErrNoPublishableKey == "we could not set the publishable key in the .env file"
ErrDeviceName == "no device name"
ErrAuthorize == "authorize failed"
ErrEnvWrite == "write of .env failed"
ErrRemoveAll == "remove failed"

\* Outcomes of an operation that are not an error value.
None == "none"
Nil == "nil"
Panic == "panic: index out of range"
Crashed == "crashed"

Range(s) == {s[i] : i \in 1..Len(s)}
Prefix(s, n) == SubSeq(s, 1, n)

Ev(op, arg, val, err) == [op |-> op, arg |-> arg, val |-> val, err |-> err]

\* --------------------------------------------------------- static catalog
requiredResources ==
  << [name |-> BasicName, description |-> "recurring price for a 'basic' plan",
      httpPath |-> "/v1/prices"],
     [name |-> ProName, description |-> "recurring price for a 'pro' plan",
      httpPath |-> "/v1/prices"] >>

CatalogNames == {requiredResources[i].name : i \in 1..Len(requiredResources)}

\* The result is <<rr>> when found and <<>> for Go's nil pointer.
RECURSIVE getRequiredResourceFrom(_, _)
getRequiredResourceFrom(i, name) ==
  IF i > Len(requiredResources) THEN <<>>
  ELSE IF requiredResources[i].name = name THEN <<requiredResources[i]>>
  ELSE getRequiredResourceFrom(i + 1, name)

getRequiredResource(name) == getRequiredResourceFrom(1, name)

\* ------------------------------------------------------ manifest helpers
hasIntegrations(sc) == Len(sc.Integrations) > 1

integrationNames(sc) == [i \in 1..Len(sc.Integrations) |-> sc.Integrations[i].Name]

hasClients(i) == Len(i.Clients) > 0

hasServers(i) == Len(i.Servers) > 0

hasMultipleClientsBuggy(i) == Len(i.Clients) > 0

hasMultipleClients(i) == Len(i.Clients) > 1

hasMultipleServersBuggy(i) == Len(i.Servers) > 0

hasMultipleServers(i) == Len(i.Servers) > 1

\* The loop of integrationSelectPrompt keeps the last integration whose name
\* matches; 0 is the nil pointer.
RECURSIVE selectedIntegrationFrom(_, _, _, _)
selectedIntegrationFrom(sc, selected, i, found) ==
  IF i > Len(sc.Integrations) THEN found
  ELSE selectedIntegrationFrom(sc, selected, i + 1,
         IF sc.Integrations[i].Name = selected THEN i ELSE found)

integrationSelectPrompt(sc, selected) == selectedIntegrationFrom(sc, selected, 1, 0)

shouldCreateAlways(selected) == TRUE

shouldCreateRequiredResources(selected) == selected = "yes"

\* ---------------------------------------------------------------- gap-check
RECURSIVE MissingLoopIgnoringLedger(_, _, _, _)
MissingLoopIgnoringLedger(refs, i, profile, ret) ==
  IF i > Len(refs) THEN ret
  ELSE LET rr == getRequiredResource(refs[i].Name) IN
       IF rr = <<>> THEN <<>>
       ELSE MissingLoopIgnoringLedger(refs, i + 1, profile, Append(ret, rr[1]))

RECURSIVE MissingLoopInverted(_, _, _, _)
MissingLoopInverted(refs, i, profile, ret) ==
  IF i > Len(refs) THEN ret
  ELSE LET rr == getRequiredResource(refs[i].Name) IN
       IF rr = <<>> THEN <<>>
       ELSE IF profile[rr[1].name] # ""
            THEN MissingLoopInverted(refs, i + 1, profile, Append(ret, rr[1]))
            ELSE MissingLoopInverted(refs, i + 1, profile, ret)

RECURSIVE MissingLoopSkippingUnknown(_, _, _, _)
MissingLoopSkippingUnknown(refs, i, profile, ret) ==
  IF i > Len(refs) THEN ret
  ELSE LET rr == getRequiredResource(refs[i].Name) IN
       IF rr = <<>> THEN MissingLoopSkippingUnknown(refs, i + 1, profile, ret)
       ELSE IF profile[rr[1].name] = ""
            THEN MissingLoopSkippingUnknown(refs, i + 1, profile, Append(ret, rr[1]))
            ELSE MissingLoopSkippingUnknown(refs, i + 1, profile, ret)

RECURSIVE MissingLoop(_, _, _, _)
MissingLoop(refs, i, profile, ret) ==
  IF i > Len(refs) THEN ret
  ELSE LET rr == getRequiredResource(refs[i].Name) IN
       IF rr = <<>> THEN <<>>
       ELSE IF profile[rr[1].name] = ""
            THEN MissingLoop(refs, i + 1, profile, Append(ret, rr[1]))
            ELSE MissingLoop(refs, i + 1, profile, ret)

MissingRequiredResources(sc, profile) == MissingLoop(sc.RequiredResources, 1, profile, <<>>)

\* ------------------------------------------------------ creation response
\* fields["id"].(string) on the decoded body.
ResponseBody(json, idType, id) == [json |-> json, idType |-> idType, id |-> id]

extractID(body) ==
  IF ~body.json THEN [id |-> "", err |-> ErrBody]
  ELSE IF body.idType # "string" THEN [id |-> "", err |-> ErrNoID]
  ELSE [id |-> body.id, err |-> ""]

pullErrorIsFatalAlways(e) == TRUE

pullErrorIsFatal(e) == e # NoErrAlreadyUpToDate

IsNotExist(e) == e = ErrNotExist

\* ------------------------------------------------------------------ inputs
ClientPool == <<"html", "react", "vue", "svelte", "angular">>
ServerPool == <<"node", "ruby", "python", "go", "java">>
MainFirstNames == <<"main", "checkout", "elements", "billing">>
MainLastNames == <<"checkout", "main", "elements", "billing">>

EnvVarOf(name) ==
  IF name = BasicName THEN "BASIC_PRICE_ID"
  ELSE IF name = ProName THEN "PRO_PRICE_ID"
  ELSE "OTHER_ID"

RefNames == CatalogNames \cup {UnknownName}

RefLists ==
  UNION { { [i \in 1..n |-> [Name |-> f[i], EnvVar |-> EnvVarOf(f[i])]] : f \in [1..n -> RefNames] }
          : n \in 0..MaxRefs }

\* The j-th integration of a list offers (c + j - 1) mod (MaxOptions + 1)
\* clients and (s + 2 (j - 1)) mod (MaxOptions + 1) servers.
IntegrationList(n, c, s, names) ==
  [j \in 1..n |->
     [Name |-> names[j],
      Clients |-> Prefix(ClientPool, (c + j - 1) % (MaxOptions + 1)),
      Servers |-> Prefix(ServerPool, (s + 2 * (j - 1)) % (MaxOptions + 1))]]

Manifest(integrations, refs, dotenv) ==
  [Integrations |-> integrations, RequiredResources |-> refs, ConfigureDotEnv |-> dotenv]

\* Descriptors that vary the integrations, with no or one required resource.
SelectionManifests ==
  { Manifest(IntegrationList(n, c, s, names), refs, TRUE) :
      n \in 0..MaxIntegrations, c \in 0..MaxOptions, s \in 0..MaxOptions,
      names \in {MainFirstNames, MainLastNames},
      refs \in {r \in RefLists : Len(r) = 0 \/ (Len(r) = 1 /\ r[1].Name = BasicName)} }

\* Descriptors that vary the required resources, with a sole integration:
\* "main" with one server, or another one with two servers and no client.
ProvisioningManifests ==
  { Manifest(integrations, refs, TRUE) :
      integrations \in {IntegrationList(1, 0, 1, MainFirstNames),
                        IntegrationList(1, 0, 2, MainLastNames)},
      refs \in RefLists }

\* Descriptors that do not opt into the environment configuration, with a
\* sole integration.
OptOutManifests ==
  { Manifest(IntegrationList(1, c, s, MainFirstNames), refs, FALSE) :
      c \in 0..1, s \in 0..MaxOptions,
      refs \in {r \in RefLists : Len(r) = 0 \/ (Len(r) = 1 /\ r[1].Name = BasicName)} }

Manifests == SelectionManifests \cup ProvisioningManifests \cup OptOutManifests

ExistingID == "price_123"

Ledgers == [CatalogNames -> {"", ExistingID}]

EmptyLedger == [n \in CatalogNames |-> ""]

\* The descriptor of the repository and the ledger an execution starts from:
\* every ledger for the descriptors that vary the required resources, the
\* empty one for the others.
Worlds ==
  {[manifest |-> m, ledger |-> l] : m \in ProvisioningManifests, l \in Ledgers}
  \cup {[manifest |-> m, ledger |-> EmptyLedger] : m \in SelectionManifests \cup OptOutManifests}

NoPrevRun == [interrupted |-> FALSE, done |-> {}, missing |-> <<>>, deleted |-> FALSE]

ZeroConfig == [Integrations |-> <<>>, RequiredResources |-> <<>>, ConfigureDotEnv |-> FALSE]

\* ---------------------------------------------------------------- Copy
\* lines 88-94: the integration path; "" for the sentinel "main".
pathName(i) == IF i.Name = "main" THEN "" ELSE i.Name

\* filepath.Join: the non-empty elements, separated by "/".
RECURSIVE JoinFrom(_, _)
JoinFrom(elems, j) ==
  IF j > Len(elems) THEN ""
  ELSE LET rest == JoinFrom(elems, j + 1) IN
       IF elems[j] = "" THEN rest
       ELSE IF rest = "" THEN elems[j]
       ELSE elems[j] \o "/" \o rest

Join(elems) == JoinFrom(elems, 1)

Repo == "cache/sample"
Target == "target"

\* What GetFiles lists: the top-level files of the repository, and those of
\* an integration's folder.
RepoFiles == <<".env.example", "README.md">>
IntegrationFiles == <<"package.json">>

GetFiles(path) == IF path = Repo THEN RepoFiles ELSE IntegrationFiles

RECURSIVE ListingString(_)
ListingString(l) ==
  IF l = <<>> THEN "" ELSE l[1] \o ";" \o ListingString(Tail(l))

\* The calls of a Copy in which nothing fails, in order.
CopyPlanClientFirst(i, srv, cli) ==
  LET integ == pathName(i)
      l1 == GetFiles(Join(<<Repo, integ>>))
      l2 == GetFiles(Repo)
  IN
  (IF hasClients(i)
   THEN <<Ev("Copy", Join(<<Repo, integ, "client", cli>>), Join(<<Target, "client">>), "")>>
   ELSE <<>>)
  \o (IF hasServers(i)
      THEN <<Ev("Copy", Join(<<Repo, integ, "server", srv>>), Join(<<Target, "server">>), "")>>
      ELSE <<>>)
  \o <<Ev("GetFiles", Join(<<Repo, integ>>), ListingString(l1), "")>>
  \o [j \in 1..Len(l1) |->
        Ev("Copy", Join(<<Repo, integ, l1[j]>>), Join(<<Target, l1[j]>>), "")]
  \o <<Ev("GetFiles", Repo, ListingString(l2), "")>>
  \o [j \in 1..Len(l2) |-> Ev("Copy", Join(<<Repo, l2[j]>>), Join(<<Target, l2[j]>>), "")]

\* The server source built from the first server the integration offers.
CopyPlanFirstServer(i, srv, cli) ==
  LET integ == pathName(i)
      l1 == GetFiles(Join(<<Repo, integ>>))
      l2 == GetFiles(Repo)
  IN
  (IF hasServers(i)
   THEN <<Ev("Copy", Join(<<Repo, integ, "server", i.Servers[1]>>), Join(<<Target, "server">>), "")>>
   ELSE <<>>)
  \o (IF hasClients(i)
      THEN <<Ev("Copy", Join(<<Repo, integ, "client", cli>>), Join(<<Target, "client">>), "")>>
      ELSE <<>>)
  \o <<Ev("GetFiles", Join(<<Repo, integ>>), ListingString(l1), "")>>
  \o [j \in 1..Len(l1) |->
        Ev("Copy", Join(<<Repo, integ, l1[j]>>), Join(<<Target, l1[j]>>), "")]
  \o <<Ev("GetFiles", Repo, ListingString(l2), "")>>
  \o [j \in 1..Len(l2) |-> Ev("Copy", Join(<<Repo, l2[j]>>), Join(<<Target, l2[j]>>), "")]

CopyPlan(i, srv, cli) ==
  LET integ == pathName(i)
      l1 == GetFiles(Join(<<Repo, integ>>))
      l2 == GetFiles(Repo)
  IN
  (IF hasServers(i)
   THEN <<Ev("Copy", Join(<<Repo, integ, "server", srv>>), Join(<<Target, "server">>), "")>>
   ELSE <<>>)
  \o (IF hasClients(i)
      THEN <<Ev("Copy", Join(<<Repo, integ, "client", cli>>), Join(<<Target, "client">>), "")>>
      ELSE <<>>)
  \o <<Ev("GetFiles", Join(<<Repo, integ>>), ListingString(l1), "")>>
  \o [j \in 1..Len(l1) |->
        Ev("Copy", Join(<<Repo, integ, l1[j]>>), Join(<<Target, l1[j]>>), "")]
  \o <<Ev("GetFiles", Repo, ListingString(l2), "")>>
  \o [j \in 1..Len(l2) |-> Ev("Copy", Join(<<Repo, l2[j]>>), Join(<<Target, l2[j]>>), "")]

\* The call e when it fails: a listing that fails lists nothing.
Failed(e) ==
  IF e.op = "GetFiles" THEN Ev("GetFiles", e.arg, "", ErrGetFiles)
  ELSE Ev(e.op, e.arg, e.val, ErrCopy)

\* ------------------------------------------------------------ ConfigureDotEnv
EnvKeys ==
  {"STRIPE_PUBLISHABLE_KEY", "STRIPE_SECRET_KEY", "STRIPE_WEBHOOK_SECRET", "STATIC_DIR",
   "BASIC_PRICE_ID", "PRO_PRICE_ID", "OTHER_ID", "PORT"}

ReservedKeys ==
  {"STRIPE_PUBLISHABLE_KEY", "STRIPE_SECRET_KEY", "STRIPE_WEBHOOK_SECRET", "STATIC_DIR"}

\* A key that a .env mapping does not hold.
Absent == "<absent>"

EmptyEnv == [key \in EnvKeys |-> Absent]

\* What godotenv.Parse reads from .env.example: placeholders for some keys.
ExampleEnv ==
  [key \in EnvKeys |->
     IF key = "PORT" THEN "4242"
     ELSE IF key = "STATIC_DIR" THEN "../../client"
     ELSE IF key = "STRIPE_SECRET_KEY" THEN "sk_12345"
     ELSE IF key = "BASIC_PRICE_ID" THEN "price_12345"
     ELSE Absent]

PublishableKey == "pk_test_1"
SecretKey == "sk_test_1"
DeviceName == "device"
WebhookSecret == "whsec_1"

\* server/.env of the target before ConfigureDotEnv runs.
PriorEnv == [exists |-> TRUE, vars |-> [EmptyEnv EXCEPT !["STRIPE_SECRET_KEY"] = "sk_old"]]

\* What a failed godotenv.Write may leave: the file created and still empty.
TruncatedEnv == [exists |-> TRUE, vars |-> EmptyEnv]

GetStripeSampleResourceID(profile, resourceName) ==
  IF resourceName \in DOMAIN profile THEN profile[resourceName] ELSE ""

\* lines 414-417
configuresAlways(i, sc) == hasServers(i)

configures(i, sc) == hasServers(i) /\ sc.ConfigureDotEnv

\* lines 432-435
publishableKeyAccepted(publishableKey) == FALSE

publishableKeyMissing(publishableKey) == publishableKey = ""

\* lines 459-464
RECURSIVE injectZeroing(_, _, _, _)
injectZeroing(dotenv, refs, j, profile) ==
  IF j > Len(refs) THEN dotenv
  ELSE injectZeroing([dotenv EXCEPT ![refs[j].EnvVar] =
                        GetStripeSampleResourceID(profile, refs[j].Name)],
                     refs, j + 1, profile)

RECURSIVE injectResourceIDs(_, _, _, _)
injectResourceIDs(dotenv, refs, j, profile) ==
  IF j > Len(refs) THEN dotenv
  ELSE LET rid == GetStripeSampleResourceID(profile, refs[j].Name) IN
       IF rid # ""
       THEN injectResourceIDs([dotenv EXCEPT ![refs[j].EnvVar] = rid], refs, j + 1, profile)
       ELSE injectResourceIDs(dotenv, refs, j + 1, profile)

\* lines 454-464
composeDotEnv(example, publishableKey, apiKey, secret, refs, profile) ==
  injectResourceIDs([example EXCEPT !["STRIPE_PUBLISHABLE_KEY"] = publishableKey,
                                    !["STRIPE_SECRET_KEY"] = apiKey,
                                    !["STRIPE_WEBHOOK_SECRET"] = secret,
                                    !["STATIC_DIR"] = "../client"],
                    refs, 1, profile)

\* ---------------------------------------------------------------- DeleteCache
\* Whether the path exists after Fs.RemoveAll returned nil.
removeAllKeeps(exists) == exists

removeAll(exists) == FALSE

\* ---------------------------------------------------------- gRPC interceptors
requiredHeader == "sec-x-stripe-cli"

InvalidArgument == "InvalidArgument"
Unauthenticated == "Unauthenticated"
Internal == "Internal"

HeaderPool == {requiredHeader, "user-agent"}

\* An incoming context: whether it carries metadata, and the keys of it.
Contexts ==
  {[ok |-> FALSE, md |-> {}]} \cup {[ok |-> TRUE, md |-> h] : h \in SUBSET HeaderPool}

\* What the wrapped handler may return.
HandlerResults == {Nil, Internal, Unauthenticated}

authorizeHeaderOnly(ctx) ==
  IF ~ctx.ok THEN Nil
  ELSE IF requiredHeader \notin ctx.md THEN Unauthenticated
  ELSE Nil

authorize(ctx) ==
  IF ~ctx.ok THEN InvalidArgument
  ELSE IF requiredHeader \notin ctx.md THEN Unauthenticated
  ELSE Nil

Call(kind, ctx, telemetry, handler, result) ==
  [kind |-> kind, ctx |-> ctx, telemetry |-> telemetry, handler |-> handler, result |-> result]

\* ------------------------------------------------------------------- state
VARIABLES
  repoConfig,        \* the descriptor .cli.json of the template repository
  cacheExists,       \* the cache folder of the sample exists on disk
  disk,              \* the profile's config file: catalog name -> identifier
  mem,               \* s.Config.Profile, the in-memory profile
  sampleConfig,      \* s.sampleConfig
  integration,       \* s.integration: index into Integrations, 0 for nil
  client,            \* s.client
  server,            \* s.server
  pc,                \* position of the invocation
  missingResources,  \* local of SelectOptions
  k,                 \* index of the range loop over missingResources
  id,                \* local of the loop body: the identifier just created
  initResult,        \* what Initialize returned
  selectResult,      \* what SelectOptions returned
  trace,             \* the collaborator calls of the operation in progress, in order
  ledger0,           \* the ledger as this invocation found it
  created,           \* catalog name -> resources created on the account so far
  runs,              \* invocations started so far
  prevRun,           \* how the previous invocation ended
  copyResult,        \* what Copy returned
  dotenvResult,      \* what ConfigureDotEnv returned
  deleteResult,      \* what DeleteCache returned
  envFile,           \* server/.env of the target folder of this invocation
  rpcLog             \* the calls the gRPC interceptors served, in order

vars == <<repoConfig, cacheExists, disk, mem, sampleConfig, integration, client,
          server, pc, missingResources, k, id, initResult, selectResult, trace,
          ledger0, created, runs, prevRun, copyResult, dotenvResult, deleteResult,
          envFile, rpcLog>>

laterVars == <<copyResult, dotenvResult, deleteResult, envFile, rpcLog>>
samplesVars == <<repoConfig, cacheExists, disk, mem, sampleConfig, integration, client,
                 server, pc, missingResources, k, id, initResult, selectResult, trace,
                 ledger0, created, runs, prevRun, copyResult, dotenvResult, deleteResult,
                 envFile>>
selectionVars == <<integration, client, server>>
loopVars == <<missingResources, k, id>>
worldVars == <<repoConfig, cacheExists, disk, created, runs, ledger0, prevRun>>

Init ==
  /\ \E w \in Worlds :
       /\ repoConfig = w.manifest
       /\ disk = w.ledger
  /\ cacheExists \in BOOLEAN
  /\ mem = disk
  /\ ledger0 = disk
  /\ sampleConfig = ZeroConfig
  /\ integration = 0
  /\ client = ""
  /\ server = ""
  /\ pc = "start"
  /\ missingResources = <<>>
  /\ k = 0
  /\ id = ""
  /\ initResult = None
  /\ selectResult = None
  /\ trace = <<>>
  /\ created = [n \in CatalogNames |-> 0]
  /\ runs = 1
  /\ prevRun = NoPrevRun
  /\ copyResult = None
  /\ dotenvResult = None
  /\ deleteResult = None
  /\ envFile = PriorEnv
  /\ rpcLog = <<>>

\* ---------------------------------------------------------------- Initialize
InitializeReturn(result, calls, cfg, cache) ==
  /\ initResult' = result
  /\ trace' = trace \o calls
  /\ sampleConfig' = cfg
  /\ cacheExists' = cache
  /\ pc' = IF result = Nil THEN "initialized" ELSE "exit"
  /\ UNCHANGED <<repoConfig, disk, mem, selectionVars, loopVars, selectResult,
                 ledger0, created, runs, prevRun, laterVars>>

\* afero.ReadFile of .cli.json, then json.Unmarshal into s.sampleConfig.
ReadDescriptor(calls, cache) ==
  \/ InitializeReturn(ErrReadFile, calls \o <<Ev("ReadFile", ".cli.json", "", ErrReadFile)>>,
                      sampleConfig, cache)
  \/ InitializeReturn(ErrUnmarshal,
                      calls \o <<Ev("ReadFile", ".cli.json", "", ""),
                                 Ev("Unmarshal", ".cli.json", "", ErrUnmarshal)>>,
                      sampleConfig, cache)
  \/ InitializeReturn(Nil,
                      calls \o <<Ev("ReadFile", ".cli.json", "", ""),
                                 Ev("Unmarshal", ".cli.json", "", "")>>,
                      repoConfig, cache)

\* What Fs.Stat answers for the cache path: an existing path is found or is
\* unreadable, a missing one is reported missing.
StatResults == IF cacheExists THEN {"", ErrPermission} ELSE {ErrNotExist}

Initialize ==
  /\ pc = "start"
  /\ \/ InitializeReturn(ErrCacheFolder, <<Ev("appCacheFolder", "", "", ErrCacheFolder)>>,
                         sampleConfig, cacheExists)
     \/ \E stat \in StatResults :
          LET calls == <<Ev("appCacheFolder", "", "", ""), Ev("Stat", "", IF cacheExists THEN "present" ELSE "absent", stat)>> IN
          IF IsNotExist(stat)
          THEN \/ \E left \in BOOLEAN :
                    InitializeReturn(ErrClone, calls \o <<Ev("Clone", "", "", ErrClone)>>,
                                     sampleConfig, left)
               \/ ReadDescriptor(calls \o <<Ev("Clone", "", "", "")>>, TRUE)
          ELSE \E e \in {"", NoErrAlreadyUpToDate, ErrPull} :
                 IF e # "" /\ pullErrorIsFatal(e)
                 THEN InitializeReturn(e, calls \o <<Ev("Pull", "", "", e)>>,
                                       sampleConfig, cacheExists)
                 ELSE ReadDescriptor(calls \o <<Ev("Pull", "", "", e)>>, cacheExists)

\* ------------------------------------------------------------- SelectOptions
SelectReturn(result) ==
  /\ selectResult' = result
  /\ pc' = IF result = Nil THEN "selected" ELSE "exit"

\* lines 173-180
SelectIntegration ==
  /\ pc = "initialized"
  /\ IF hasIntegrations(sampleConfig)
     THEN \/ \E selected \in Range(integrationNames(sampleConfig)) :
               /\ integration' = integrationSelectPrompt(sampleConfig, selected)
               /\ trace' = <<Ev("Prompt", "integration", selected, "")>>
               /\ pc' = "client"
               /\ UNCHANGED selectResult
          \/ /\ integration' = 0
             /\ trace' = <<Ev("Prompt", "integration", "", ErrPrompt)>>
             /\ SelectReturn(ErrPrompt)
     ELSE IF Len(sampleConfig.Integrations) = 0
          THEN /\ SelectReturn(Panic)
               /\ trace' = <<>>
               /\ UNCHANGED integration
          ELSE /\ integration' = 1
               /\ pc' = "client"
               /\ trace' = <<>>
               /\ UNCHANGED selectResult
  \* prevRun.deleted is about the Initialize that follows a DeleteCache only.
  /\ prevRun' = [prevRun EXCEPT !.deleted = FALSE]
  /\ UNCHANGED <<repoConfig, cacheExists, disk, created, runs, ledger0, laterVars, mem,
                 sampleConfig, client, server, loopVars, initResult>>

\* lines 182-189: a failed client prompt makes SelectOptions return nil.
SelectClient ==
  /\ pc = "client"
  /\ LET i == sampleConfig.Integrations[integration] IN
     IF hasMultipleClients(i)
     THEN \/ \E selected \in Range(i.Clients) :
               /\ client' = selected
               /\ trace' = Append(trace, Ev("Prompt", "client", selected, ""))
               /\ pc' = "server"
               /\ UNCHANGED selectResult
          \/ /\ client' = ""
             /\ trace' = Append(trace, Ev("Prompt", "client", "", ErrPrompt))
             /\ SelectReturn(Nil)
     ELSE /\ client' = ""
          /\ pc' = "server"
          /\ UNCHANGED <<selectResult, trace>>
  /\ UNCHANGED <<worldVars, laterVars, mem, sampleConfig, integration, server, loopVars, initResult>>

\* lines 191-198
SelectServer ==
  /\ pc = "server"
  /\ LET i == sampleConfig.Integrations[integration] IN
     IF hasMultipleServers(i)
     THEN \/ \E selected \in Range(i.Servers) :
               /\ server' = selected
               /\ trace' = Append(trace, Ev("Prompt", "server", selected, ""))
               /\ pc' = "gap"
               /\ UNCHANGED selectResult
          \/ /\ server' = ""
             /\ trace' = Append(trace, Ev("Prompt", "server", "", ErrPrompt))
             /\ SelectReturn(ErrPrompt)
     ELSE /\ server' = ""
          /\ pc' = "gap"
          /\ UNCHANGED <<selectResult, trace>>
  /\ UNCHANGED <<worldVars, laterVars, mem, sampleConfig, integration, client, loopVars, initResult>>

\* lines 200-211 and 222: the gap-check and the auto-creation prompt.
GapCheck ==
  /\ pc = "gap"
  /\ LET missing == MissingRequiredResources(sampleConfig, mem)
         calls == Append(trace, Ev("MissingRequiredResources", "", "", ""))
     IN /\ missingResources' = missing
        /\ IF Len(missing) > 0
           THEN \/ \E selected \in {"yes", "no"} :
                     /\ trace' = Append(calls, Ev("Prompt", "auto-create", selected, ""))
                     /\ IF shouldCreateRequiredResources(selected)
                        THEN /\ k' = 1
                             /\ pc' = "create"
                             /\ UNCHANGED selectResult
                        ELSE /\ k' = 0
                             /\ SelectReturn(Nil)
                \/ /\ trace' = Append(calls, Ev("Prompt", "auto-create", "", ErrPrompt))
                   /\ k' = 0
                   /\ SelectReturn(ErrPrompt)
           ELSE /\ trace' = calls
                /\ k' = 0
                /\ SelectReturn(Nil)
  /\ UNCHANGED <<worldVars, laterVars, mem, sampleConfig, selectionVars, id, initResult>>

\* The identifier the API gives to the object it creates: a new one each time.
FreshID ==
  LET resourceName == missingResources[k].name IN
  "price_" \o (IF resourceName = BasicName THEN "basic" ELSE "pro") \o "_"
           \o ToString(created[resourceName] + 1)

CreateFail(calls, err) ==
  /\ trace' = trace \o calls
  /\ SelectReturn(err)
  /\ UNCHANGED <<id, created>>

\* lines 212-216 with CreateRequiredResource, lines 349-383
CreateRequiredResource ==
  /\ pc = "create"
  /\ LET name == missingResources[k].name
         rr == getRequiredResource(name)
     IN IF rr = <<>>
        THEN CreateFail(<<>>, ErrUnknownResource)
        ELSE \/ CreateFail(<<Ev("GetAPIKey", "", "", ErrAPIKey)>>, ErrAPIKey)
             \/ CreateFail(<<Ev("GetAPIKey", "", "", ""),
                             Ev("MakeRequest", name, "", ErrRequest)>>, ErrRequest)
             \/ \E body \in {ResponseBody(FALSE, "absent", ""),
                             ResponseBody(TRUE, "absent", ""),
                             ResponseBody(TRUE, "number", ""),
                             ResponseBody(TRUE, "string", FreshID)} :
                  LET calls == <<Ev("GetAPIKey", "", "", ""),
                                 Ev("MakeRequest", name, body.id, "")>>
                      r == extractID(body)
                  IN IF r.err # ""
                     THEN CreateFail(calls, r.err)
                     ELSE /\ id' = r.id
                          /\ created' = [created EXCEPT ![name] = @ + 1]
                          /\ trace' = trace \o calls
                          /\ pc' = "persist"
                          /\ UNCHANGED selectResult
  /\ UNCHANGED <<repoConfig, cacheExists, disk, runs, ledger0, prevRun, mem,
                 sampleConfig, selectionVars, missingResources, k, initResult, laterVars>>

\* line 217 with PersistRequiredResourceID, lines 387-391: the outcome of the
\* durable write is dropped and nil is returned; then the loop goes on.
PersistWithoutSet ==
  /\ pc = "persist"
  /\ LET name == missingResources[k].name IN
     \E werr \in {"", ErrWrite} :
       /\ mem' = mem
       /\ disk' = IF werr = "" THEN [disk EXCEPT ![name] = id] ELSE disk
       /\ trace' = trace \o <<Ev("WriteConfigField", name, id, werr)>>
  /\ id' = ""
  /\ IF k < Len(missingResources)
     THEN /\ k' = k + 1
          /\ pc' = "create"
          /\ UNCHANGED selectResult
     ELSE /\ k' = k
          /\ SelectReturn(Nil)
  /\ UNCHANGED <<repoConfig, cacheExists, created, runs, ledger0, prevRun,
                 sampleConfig, selectionVars, missingResources, initResult, laterVars>>

PersistRequiredResourceID ==
  /\ pc = "persist"
  /\ LET name == missingResources[k].name IN
     \E werr \in {"", ErrWrite} :
       /\ mem' = [mem EXCEPT ![name] = id]
       /\ disk' = IF werr = "" THEN [disk EXCEPT ![name] = id] ELSE disk
       /\ trace' = trace \o <<Ev("SetStripeSampleResourceID", name, id, ""),
                              Ev("WriteConfigField", name, id, werr)>>
  /\ id' = ""
  /\ IF k < Len(missingResources)
     THEN /\ k' = k + 1
          /\ pc' = "create"
          /\ UNCHANGED selectResult
     ELSE /\ k' = k
          /\ SelectReturn(Nil)
  /\ UNCHANGED <<repoConfig, cacheExists, created, runs, ledger0, prevRun,
                 sampleConfig, selectionVars, missingResources, initResult, laterVars>>

\* ------------------------------------------------------------------- Copy
\* The locals of SelectOptions are gone when it has returned.
CopyReturn(result, calls) ==
  /\ copyResult' = result
  /\ trace' = calls
  /\ pc' = IF result = Nil THEN "copied" ELSE "aborted"
  /\ missingResources' = <<>>
  /\ k' = 0
  /\ id' = ""
  /\ UNCHANGED <<worldVars, mem, sampleConfig, selectionVars, initResult, selectResult,
                 dotenvResult, deleteResult, envFile, rpcLog>>

\* lines 243-292: Copy(target), called when SelectOptions returned nil.  The
\* first call that fails ends it.
Copy ==
  /\ pc = "selected"
  /\ LET i == sampleConfig.Integrations[integration] IN
     LET plan == CopyPlan(i, server, client) IN
       \/ CopyReturn(Nil, plan)
       \/ \E n \in 1..Len(plan) :
            CopyReturn(Failed(plan[n]).err, Append(Prefix(plan, n - 1), Failed(plan[n])))

\* ------------------------------------------------------------ ConfigureDotEnv
DotEnvReturn(result, calls, file) ==
  /\ dotenvResult' = result
  /\ trace' = calls
  /\ envFile' = file
  /\ pc' = IF result = Nil THEN "configured" ELSE "aborted"
  /\ UNCHANGED <<worldVars, mem, sampleConfig, selectionVars, loopVars, initResult,
                 selectResult, copyResult, deleteResult, rpcLog>>

\* lines 413-475: ConfigureDotEnv(sampleLocation), called when Copy returned nil.
ConfigureDotEnv ==
  /\ pc = "copied"
  /\ LET i == sampleConfig.Integrations[integration]
         exFile == Join(<<Target, ".env.example">>)
         envPath == Join(<<Target, "server", ".env">>)
     IN
     IF ~configures(i, sampleConfig)
     THEN DotEnvReturn(Nil, <<>>, envFile)
     ELSE
       \/ DotEnvReturn(ErrOpen, <<Ev("Open", exFile, "", ErrOpen)>>, envFile)
       \/ DotEnvReturn(ErrParse, <<Ev("Open", exFile, "", ""),
                                   Ev("Parse", exFile, "", ErrParse)>>, envFile)
       \/ \E publishableKey \in {"", PublishableKey} :
            LET read == <<Ev("Open", exFile, "", ""), Ev("Parse", exFile, "", ""),
                          Ev("GetPublishableKey", "", publishableKey, "")>>
                key == Ev("GetAPIKey", "", SecretKey, "")
                dev == Ev("GetDeviceName", "", DeviceName, "")
                auth == Ev("Authorize", "webhooks", WebhookSecret, "")
                dotenv == composeDotEnv(ExampleEnv, publishableKey, SecretKey,
                                        WebhookSecret, sampleConfig.RequiredResources, mem)
            IN
            IF publishableKeyMissing(publishableKey)
            THEN DotEnvReturn(ErrNoPublishableKey, read, envFile)
            ELSE
              \/ DotEnvReturn(ErrAPIKey, read \o <<Ev("GetAPIKey", "", "", ErrAPIKey)>>, envFile)
              \/ DotEnvReturn(ErrDeviceName,
                              read \o <<key, Ev("GetDeviceName", "", "", ErrDeviceName)>>,
                              envFile)
              \/ DotEnvReturn(ErrAuthorize,
                              read \o <<key, dev, Ev("Authorize", "webhooks", "", ErrAuthorize)>>,
                              envFile)
              \/ DotEnvReturn(Nil, read \o <<key, dev, auth, Ev("Write", envPath, "", "")>>,
                              [exists |-> TRUE, vars |-> dotenv])
              \/ \E left \in {envFile, TruncatedEnv} :
                   DotEnvReturn(ErrEnvWrite,
                                read \o <<key, dev, auth, Ev("Write", envPath, "", ErrEnvWrite)>>,
                                left)

\* ---------------------------------------------------------------- DeleteCache
DeleteReturn(result, calls, cache) ==
  /\ deleteResult' = result
  /\ trace' = calls
  /\ cacheExists' = cache
  /\ pc' = "deleted"
  /\ UNCHANGED <<repoConfig, disk, created, runs, ledger0, prevRun, mem, sampleConfig,
                 selectionVars, loopVars, initResult, selectResult, copyResult,
                 dotenvResult, envFile, rpcLog>>

\* lines 492-504: DeleteCache(sample), an invocation that does nothing else.
DeleteCache ==
  /\ pc = "start"
  /\ \/ DeleteReturn(ErrCacheFolder, <<Ev("appCacheFolder", "", "", ErrCacheFolder)>>,
                     cacheExists)
     \/ DeleteReturn(ErrRemoveAll, <<Ev("appCacheFolder", "", "", ""),
                                     Ev("RemoveAll", "", "", ErrRemoveAll)>>, cacheExists)
     \/ DeleteReturn(Nil, <<Ev("appCacheFolder", "", "", ""), Ev("RemoveAll", "", "", "")>>,
                     removeAll(cacheExists))

\* --------------------------------------------------------------- environment
\* The process dies in the middle of SelectOptions: nothing is returned and
\* only the config file survives.
Crash ==
  /\ pc \in {"client", "server", "gap", "create", "persist"}
  /\ pc' = "exit"
  /\ selectResult' = Crashed
  /\ UNCHANGED <<worldVars, laterVars, mem, sampleConfig, selectionVars, loopVars, initResult, trace>>

\* The run that ends here was interrupted at the head of the creation loop,
\* after the first k - 1 missing resources were created and durably written.
InterruptedAfterPersist ==
  /\ selectResult = Crashed
  /\ k >= 2
  /\ id = ""
  /\ \A p \in 1..Len(trace) : trace[p].op = "WriteConfigField" => trace[p].err = ""

\* The next invocation of the CLI: a new process, whose profile is loaded from
\* the config file.
NewInvocation ==
  /\ pc \in {"exit", "selected", "copied", "configured", "aborted", "deleted"}
  /\ runs < MaxRuns
  /\ runs' = runs + 1
  /\ mem' = disk
  /\ ledger0' = disk
  /\ sampleConfig' = ZeroConfig
  /\ integration' = 0
  /\ client' = ""
  /\ server' = ""
  /\ pc' = "start"
  /\ missingResources' = <<>>
  /\ k' = 0
  /\ id' = ""
  /\ initResult' = None
  /\ selectResult' = None
  /\ trace' = <<>>
  /\ prevRun' = IF InterruptedAfterPersist
                THEN [interrupted |-> TRUE,
                      done |-> {missingResources[j].name : j \in 1..(k - 1)},
                      missing |-> missingResources,
                      deleted |-> FALSE]
                ELSE [NoPrevRun EXCEPT !.deleted = (deleteResult = Nil)]
  /\ copyResult' = None
  /\ dotenvResult' = None
  /\ deleteResult' = None
  /\ envFile' = PriorEnv
  /\ UNCHANGED <<repoConfig, cacheExists, disk, created, rpcLog>>

Next ==
  \/ Initialize
  \/ SelectIntegration
  \/ SelectClient
  \/ SelectServer
  \/ GapCheck
  \/ CreateRequiredResource
  \/ PersistRequiredResourceID
  \/ Copy
  \/ ConfigureDotEnv
  \/ DeleteCache
  \/ Crash
  \/ NewInvocation

Spec == Init /\ [][Next]_vars

\* ---------------------------------------------------------- gRPC interceptors
\* lines 79-93
serverUnaryInterceptor ==
  /\ Len(rpcLog) < MaxCalls
  /\ \E ctx \in Contexts :
       LET err == authorize(ctx) IN
       IF err # Nil
       THEN rpcLog' = Append(rpcLog, Call("unary", ctx, FALSE, FALSE, err))
       ELSE \E r \in HandlerResults :
              rpcLog' = Append(rpcLog, Call("unary", ctx, TRUE, TRUE, r))
  /\ UNCHANGED samplesVars

\* lines 62-76, with newWrappedStream, lines 29-32
serverStreamInterceptor ==
  /\ Len(rpcLog) < MaxCalls
  /\ \E ctx \in Contexts :
       LET err == authorize(ctx) IN
       IF err # Nil
       THEN rpcLog' = Append(rpcLog, Call("stream", ctx, FALSE, FALSE, err))
       ELSE \E r \in HandlerResults :
              rpcLog' = Append(rpcLog, Call("stream", ctx, TRUE, TRUE, r))
  /\ UNCHANGED samplesVars

\* The server before any call, with the sample workflow at rest.
InitRPC ==
  /\ repoConfig = ZeroConfig
  /\ cacheExists = FALSE
  /\ disk = [n \in CatalogNames |-> ""]
  /\ mem = disk
  /\ ledger0 = disk
  /\ sampleConfig = ZeroConfig
  /\ integration = 0
  /\ client = ""
  /\ server = ""
  /\ pc = "start"
  /\ missingResources = <<>>
  /\ k = 0
  /\ id = ""
  /\ initResult = None
  /\ selectResult = None
  /\ trace = <<>>
  /\ created = [n \in CatalogNames |-> 0]
  /\ runs = 1
  /\ prevRun = NoPrevRun
  /\ copyResult = None
  /\ dotenvResult = None
  /\ deleteResult = None
  /\ envFile = PriorEnv
  /\ rpcLog = <<>>

NextRPC ==
  \/ serverUnaryInterceptor
  \/ serverStreamInterceptor

SpecRPC == InitRPC /\ [][NextRPC]_vars

\* ------------------------------------------------------- reading the trace
ErrorValues ==
  {ErrPull, ErrClone, ErrCacheFolder, ErrReadFile, ErrUnmarshal, ErrPrompt,
   ErrAPIKey, ErrRequest, ErrBody, ErrNoID, ErrUnknownResource, ErrWrite,
   NoErrAlreadyUpToDate, ErrCopy, ErrGetFiles, ErrOpen, ErrParse, ErrNoPublishableKey,
   ErrDeviceName, ErrAuthorize, ErrEnvWrite, ErrRemoveAll}

CreateErrors == {ErrAPIKey, ErrRequest, ErrBody, ErrNoID, ErrUnknownResource}

Called(op) == \E p \in 1..Len(trace) : trace[p].op = op

CallsOf(op, name) == {p \in 1..Len(trace) : trace[p].op = op /\ trace[p].arg = name}

Prompted(axis) == CallsOf("Prompt", axis) # {}

\* SelectOptions has been entered: the trace is the one of SelectOptions.
InSelectOptions ==
  \/ pc \in {"client", "server", "gap", "create", "persist", "selected"}
  \/ pc = "exit" /\ selectResult # None

\* Initialize has returned and nothing ran after it.
InitializeReturned == pc \in {"initialized", "exit"} /\ initResult # None /\ selectResult = None

\* Copy has returned and nothing ran after it: the trace is the one of Copy.
CopyReturned == pc \in {"copied", "aborted"} /\ copyResult # None /\ dotenvResult = None

\* ConfigureDotEnv has returned: the trace is its own.
DotEnvReturned == pc \in {"configured", "aborted"} /\ dotenvResult # None

\* DeleteCache has returned.
DeleteReturned == pc = "deleted" /\ deleteResult # None

IsCreated(e) == e.op = "MakeRequest" /\ e.err = "" /\ e.val # ""

\* The creation requests of this run that returned an identifier, in order.
Creations == SelectSeq(trace, IsCreated)

MaxOf(S) == CHOOSE x \in S : \A y \in S : y <= x

\* The ledger after the first n missing resources were created and persisted.
LedgerAfter(n) ==
  [name \in CatalogNames |->
     LET J == {j \in 1..n : missingResources[j].name = name} IN
     IF J = {} THEN ledger0[name] ELSE Creations[MaxOf(J)].val]

\* ------------------------------------------------------------------ claims

\* C1 (as stated): in one run of SelectOptions an entry that held an
\* identifier when the run began is never written, and for every catalog name
\* at most one creation request is issued and at most one write of its entry
\* happens, whatever the manifest declares.
C1_WriteOncePerRun ==
  InSelectOptions =>
    \A name \in CatalogNames :
      /\ ledger0[name] # "" =>
           /\ CallsOf("SetStripeSampleResourceID", name) = {}
           /\ CallsOf("WriteConfigField", name) = {}
           /\ mem[name] = ledger0[name]
      /\ Cardinality(CallsOf("MakeRequest", name)) <= 1
      /\ Cardinality(CallsOf("SetStripeSampleResourceID", name)) <= 1
      /\ Cardinality(CallsOf("WriteConfigField", name)) <= 1

NotDoneBefore(r) == r.name \notin prevRun.done

\* C3: when the previous invocation was interrupted after its first missing
\* resources were created and durably written but before the next one was
\* created, the gap-check of this invocation returns the missing list of the
\* previous one without the recorded names, and no recorded name is created
\* again.
C3_ResumeAfterCrash ==
  (prevRun.interrupted /\ InSelectOptions /\ Called("MissingRequiredResources")) =>
    /\ missingResources = SelectSeq(prevRun.missing, NotDoneBefore)
    /\ \A name \in prevRun.done :
         /\ ledger0[name] # ""
         /\ CallsOf("MakeRequest", name) = {}

C3_Witness ==
  /\ prevRun.interrupted
  /\ pc = "persist"
  /\ Len(prevRun.missing) = 2
  /\ Len(missingResources) = 1
  /\ missingResources[1] = prevRun.missing[2]

StatCall == trace[2]

GitCall == trace[3]

\* C4: in Initialize, with the cache path present, an already-up-to-date Pull
\* leads to the descriptor being read and to success when it is valid, and any
\* other Pull error is returned without the descriptor being read; with the
\* path absent Clone is called instead of Pull, and a Clone error is returned
\* without the descriptor being read.
C4_SyncThenParse ==
  (InitializeReturned /\ Len(trace) >= 2) =>
    /\ StatCall.op = "Stat"
    /\ StatCall.val = "present" =>
         /\ GitCall.op = "Pull"
         /\ ~Called("Clone")
         /\ GitCall.err = NoErrAlreadyUpToDate =>
              /\ Called("ReadFile")
              /\ trace[Len(trace)] = Ev("Unmarshal", ".cli.json", "", "") =>
                   /\ initResult = Nil
                   /\ sampleConfig = repoConfig
         /\ GitCall.err \notin {"", NoErrAlreadyUpToDate} =>
              /\ initResult = GitCall.err
              /\ ~Called("ReadFile")
    /\ StatCall.val = "absent" =>
         /\ GitCall.op = "Clone"
         /\ ~Called("Pull")
         /\ GitCall.err # "" =>
              /\ initResult = GitCall.err
              /\ ~Called("ReadFile")

C4_Witness ==
  /\ InitializeReturned
  /\ Len(trace) = 5
  /\ GitCall = Ev("Pull", "", "", NoErrAlreadyUpToDate)
  /\ initResult = Nil

\* C5 (as stated): a manifest without integrations is rejected: once
\* Initialize and SelectOptions have run on it an error value has been
\* returned, and the integration list is never indexed out of range.
C5_ZeroIntegrationsRejected ==
  /\ selectResult # Panic
  /\ (Len(repoConfig.Integrations) = 0 /\ pc \in {"exit", "selected"}) =>
       (initResult \in ErrorValues \/ selectResult \in ErrorValues)

ChosenIntegration == sampleConfig.Integrations[integration]

\* C6: with exactly one integration there is no integration prompt and that
\* integration is chosen; with at most one client (server) option there is
\* no prompt for that axis and the selection is empty; an axis is prompted
\* only when it offers more than one option.
C6_CardinalityRule ==
  InSelectOptions =>
    /\ Len(sampleConfig.Integrations) = 1 =>
         (~Prompted("integration") /\ integration = 1)
    /\ (integration # 0 /\ Len(ChosenIntegration.Clients) <= 1) =>
         (~Prompted("client") /\ client = "")
    /\ (integration # 0 /\ Len(ChosenIntegration.Servers) <= 1) =>
         (~Prompted("server") /\ server = "")
    /\ Prompted("integration") => Len(sampleConfig.Integrations) > 1
    /\ Prompted("client") => (integration # 0 /\ Len(ChosenIntegration.Clients) > 1)
    /\ Prompted("server") => (integration # 0 /\ Len(ChosenIntegration.Servers) > 1)

C6_Witness ==
  /\ pc = "selected"
  /\ Len(sampleConfig.Integrations) = 1
  /\ Len(ChosenIntegration.Clients) = 1
  /\ Len(ChosenIntegration.Servers) = 0
  /\ Called("MissingRequiredResources")

\* Both axes are resolved and no prompt failed.
AxesResolved ==
  /\ pc \in {"gap", "create", "persist", "selected"}
  /\ Called("MissingRequiredResources") \/ pc = "gap"

\* C7 (as stated): an axis that offers exactly one option is resolved to that
\* option, and a selection is empty only when the axis offers no option.
C7_SingleOptionSelected ==
  AxesResolved =>
    /\ Len(ChosenIntegration.Clients) = 1 => client = ChosenIntegration.Clients[1]
    /\ Len(ChosenIntegration.Servers) = 1 => server = ChosenIntegration.Servers[1]
    /\ client = "" => Len(ChosenIntegration.Clients) = 0
    /\ server = "" => Len(ChosenIntegration.Servers) = 0

AnswerOf(axis) == trace[MaxOf(CallsOf("Prompt", axis))].val

\* C7 (amended): an axis that offers exactly one option is resolved to the
\* empty selection, as is an axis without options; the selection is the name
\* of an option only when the axis offers more than one and the prompt
\* returned that name.
C7_SingleOptionLeftEmpty ==
  AxesResolved =>
    /\ Len(ChosenIntegration.Clients) <= 1 => client = ""
    /\ Len(ChosenIntegration.Servers) <= 1 => server = ""
    /\ Len(ChosenIntegration.Clients) > 1 =>
         (client \in Range(ChosenIntegration.Clients) /\ client = AnswerOf("client"))
    /\ Len(ChosenIntegration.Servers) > 1 =>
         (server \in Range(ChosenIntegration.Servers) /\ server = AnswerOf("server"))

C7_Witness ==
  /\ pc = "selected"
  /\ Called("MissingRequiredResources")
  /\ ChosenIntegration.Servers = <<"node">>
  /\ Len(ChosenIntegration.Clients) = 2
  /\ server = ""
  /\ client = "react"

AllResolve(sc) ==
  \A i \in 1..Len(sc.RequiredResources) : sc.RequiredResources[i].Name \in CatalogNames

NoIdentifierAtStart(ref) == ledger0[ref.Name] = ""

NamesOf(refs) == [i \in 1..Len(refs) |-> IF "Name" \in DOMAIN refs[i] THEN refs[i].Name ELSE refs[i].name]

\* The gap-check has run and no creation was attempted since.
JustChecked == InSelectOptions /\ Called("MissingRequiredResources") /\ ~Called("GetAPIKey")

\* C8: when every declared name is in the catalog the gap-check returns, in
\* manifest order, exactly the declared refs whose ledger entry is empty; it
\* leaves the ledger as it found it, so that a second gap-check with no
\* creation in between returns the same list.
C8_GapCheckExact ==
  (InSelectOptions /\ Called("MissingRequiredResources") /\ AllResolve(sampleConfig)) =>
    /\ NamesOf(missingResources) =
         NamesOf(SelectSeq(sampleConfig.RequiredResources, NoIdentifierAtStart))
    /\ \A j \in 1..Len(missingResources) :
         getRequiredResource(missingResources[j].name) = <<missingResources[j]>>
    /\ JustChecked =>
         /\ mem = ledger0
         /\ disk = ledger0
         /\ MissingRequiredResources(sampleConfig, mem) = missingResources

C8_Witness ==
  /\ JustChecked
  /\ Len(sampleConfig.RequiredResources) = 2
  /\ NamesOf(missingResources) = <<ProName>>
  /\ ledger0[BasicName] = ExistingID

\* C9: when resources are missing and the auto-creation prompt is answered
\* "no", no creation request is issued, the ledger stays as it was and
\* SelectOptions returns success.
C9_DeclineCreatesNothing ==
  (InSelectOptions /\ \E p \in CallsOf("Prompt", "auto-create") : trace[p].val = "no") =>
    /\ ~Called("GetAPIKey")
    /\ ~Called("MakeRequest")
    /\ ~Called("SetStripeSampleResourceID")
    /\ ~Called("WriteConfigField")
    /\ mem = ledger0
    /\ disk = ledger0
    /\ selectResult = Nil
    /\ pc = "selected"

C9_Witness ==
  /\ pc = "selected"
  /\ Len(missingResources) = 2
  /\ trace[Len(trace)] = Ev("Prompt", "auto-create", "no", "")

\* The operation in progress has returned.
Returned ==
  \/ InitializeReturned
  \/ pc \in {"exit", "selected"} /\ selectResult \notin {None, Crashed, Panic}
  \/ CopyReturned
  \/ DotEnvReturned

ResultOf ==
  IF dotenvResult # None THEN dotenvResult
  ELSE IF copyResult # None THEN copyResult
  ELSE IF selectResult # None THEN selectResult
  ELSE initResult

\* C10 (as stated): an operation in which a collaborator raised an error (the
\* probe of the cache path and the prompts aside) returns an error, the
\* already-up-to-date outcome of Pull being the only one that is swallowed.
C10_ErrorsPropagate ==
  Returned =>
    \A p \in 1..Len(trace) :
      (/\ trace[p].op \notin {"Stat", "Prompt"}
       /\ trace[p].err # ""
       /\ ~(trace[p].op = "Pull" /\ trace[p].err = NoErrAlreadyUpToDate)) =>
        ResultOf \in ErrorValues

\* ----------------------------------------------------- Copy, claims C11, C12
ChosenPath == pathName(sampleConfig.Integrations[integration])

\* The manifest of the scenario: the single integration "main", servers
\* ["node"], no clients.
SingleMainNode ==
  /\ Len(sampleConfig.Integrations) = 1
  /\ sampleConfig.Integrations[1].Name = "main"
  /\ sampleConfig.Integrations[1].Servers = <<"node">>
  /\ sampleConfig.Integrations[1].Clients = <<>>

CopyDone(src, dst) == \E p \in 1..Len(trace) : trace[p] = Ev("Copy", src, dst, "")

RootEntriesCopied ==
  \A j \in 1..Len(GetFiles(Repo)) :
    CopyDone(Join(<<Repo, GetFiles(Repo)[j]>>), Join(<<Target, GetFiles(Repo)[j]>>))

NoClientCopy ==
  \A p \in 1..Len(trace) : trace[p].op = "Copy" => trace[p].val # Join(<<Target, "client">>)

\* C11 (as stated): for the manifest with the single integration "main",
\* servers ["node"] and no clients, SelectOptions and then Copy copy
\* <repo>/server/node into <target>/server and the root-level entries of the
\* repository into the target, and copy nothing to <target>/client.
C11_NodeVariantCopied ==
  (CopyReturned /\ copyResult = Nil /\ SingleMainNode) =>
    /\ CopyDone(Join(<<Repo, "server", "node">>), Join(<<Target, "server">>))
    /\ RootEntriesCopied
    /\ NoClientCopy

\* C11 (amended): for that manifest the server selection is empty, so Copy
\* copies the whole folder <repo>/server (not <repo>/server/node, and not a
\* folder under "main") into <target>/server, copies the root-level entries
\* of the repository into the target, and copies nothing to <target>/client.
C11_ServerFolderCopied ==
  (CopyReturned /\ copyResult = Nil /\ SingleMainNode) =>
    /\ server = ""
    /\ CopyDone(Join(<<Repo, "server">>), Join(<<Target, "server">>))
    /\ \A p \in 1..Len(trace) :
         trace[p].op = "Copy" =>
           /\ trace[p].arg # Join(<<Repo, "server", "node">>)
           /\ trace[p].arg \in {Join(<<Repo, "server">>)}
                               \cup {Join(<<Repo, f>>) : f \in Range(GetFiles(Repo))}
    /\ RootEntriesCopied
    /\ NoClientCopy

C11_Witness ==
  /\ CopyReturned
  /\ copyResult = Nil
  /\ SingleMainNode
  /\ CopyDone(Join(<<Repo, "server">>), Join(<<Target, "server">>))

\* The step of Copy a call belongs to: 1 the server copy, 2 the client copy,
\* 3 the listing of the integration's folder and the copies of its entries,
\* 4 the listing of the repository and the copies of its entries.
StepOf(p) ==
  LET listings == Cardinality({q \in 1..p : trace[q].op = "GetFiles"}) IN
  IF listings = 0
  THEN (IF trace[p].val = Join(<<Target, "server">>) THEN 1 ELSE 2)
  ELSE listings + 2

\* C12: the calls of Copy come in the order server copy (only when the
\* integration offers servers), client copy (only when it offers clients),
\* the entries listed under <repo>/<integration path>, the entries listed
\* under <repo>; a Copy that returns nil has made all of them; a call that
\* fails is the last call and its error is what Copy returns.
C12_CopyOrderAndAbort ==
  CopyReturned =>
    LET i == sampleConfig.Integrations[integration]
        n == Len(trace)
        first == Join(<<Repo, ChosenPath>>)
        Listed(q) == {p \in 1..n : trace[p].op = "GetFiles" /\ p < q}
    IN
    /\ \A p, q \in 1..n : p < q => StepOf(p) <= StepOf(q)
    /\ \A p \in 1..n :
         /\ StepOf(p) = 1 =>
              /\ hasServers(i)
              /\ trace[p].op = "Copy"
              /\ trace[p].arg = Join(<<Repo, ChosenPath, "server", server>>)
              /\ \A q \in 1..n : StepOf(q) = 1 => q = p
         /\ StepOf(p) = 2 =>
              /\ hasClients(i)
              /\ trace[p].op = "Copy"
              /\ trace[p].arg = Join(<<Repo, ChosenPath, "client", client>>)
              /\ trace[p].val = Join(<<Target, "client">>)
              /\ \A q \in 1..n : StepOf(q) = 2 => q = p
         /\ (StepOf(p) = 3 /\ trace[p].op = "GetFiles") => trace[p].arg = first
         /\ (StepOf(p) = 4 /\ trace[p].op = "GetFiles") => trace[p].arg = Repo
         /\ (StepOf(p) >= 3 /\ trace[p].op = "Copy") =>
              LET dir == IF StepOf(p) = 3 THEN first ELSE Repo
                  l == GetFiles(dir)
                  j == p - MaxOf(Listed(p))
              IN /\ j \in 1..Len(l)
                 /\ trace[p].arg = Join(<<dir, l[j]>>)
                 /\ trace[p].val = Join(<<Target, l[j]>>)
         /\ StepOf(p) <= 4
         /\ trace[p].err # "" => (p = n /\ copyResult = trace[p].err)
    /\ copyResult = Nil =>
         /\ hasServers(i) => \E p \in 1..n : StepOf(p) = 1
         /\ hasClients(i) => \E p \in 1..n : StepOf(p) = 2
         /\ Cardinality({p \in 1..n : StepOf(p) = 3}) = 1 + Len(GetFiles(first))
         /\ Cardinality({p \in 1..n : StepOf(p) = 4}) = 1 + Len(GetFiles(Repo))
         /\ \A p \in 1..n : trace[p].err = ""
    /\ copyResult # Nil =>
         /\ n >= 1
         /\ trace[n].err = copyResult
         /\ copyResult \in {ErrCopy, ErrGetFiles}

C12_Witness ==
  /\ CopyReturned
  /\ copyResult = ErrCopy
  /\ hasServers(sampleConfig.Integrations[integration])
  /\ hasClients(sampleConfig.Integrations[integration])
  /\ StepOf(Len(trace)) = 3
  /\ ChosenPath # ""

\* ------------------------------------- ConfigureDotEnv, claims C13, C14, C15
ChosenIntegrationOf == sampleConfig.Integrations[integration]

\* C13: ConfigureDotEnv returns nil without any call (no read of the example
\* file, no key, no authorization, no write of server/.env) when the chosen
\* integration offers no server or the configureDotEnv flag is false; it makes
\* calls only when the integration offers servers and the flag is true, and
\* then it does start by opening the example file.
C13_DotEnvNoOp ==
  DotEnvReturned =>
    LET active == hasServers(ChosenIntegrationOf) /\ sampleConfig.ConfigureDotEnv IN
    /\ ~active =>
         /\ dotenvResult = Nil
         /\ trace = <<>>
         /\ envFile = PriorEnv
    /\ active =>
         /\ Len(trace) >= 1
         /\ trace[1].op = "Open"

C13_Witness ==
  /\ pc = "configured"
  /\ hasServers(ChosenIntegrationOf)
  /\ ~sampleConfig.ConfigureDotEnv
  /\ dotenvResult = Nil

Succeeded(op) == \E p \in 1..Len(trace) : trace[p].op = op /\ trace[p].err = ""

EmptyPublishableKey ==
  \E p \in 1..Len(trace) : trace[p].op = "GetPublishableKey" /\ trace[p].val = ""

\* server/.env is written only after everything it needs was obtained.
WriteComesLast ==
  \A w \in 1..Len(trace) :
    trace[w].op = "Write" =>
      /\ w = Len(trace)
      /\ \A op \in {"Open", "Parse", "GetPublishableKey", "GetAPIKey", "GetDeviceName",
                    "Authorize"} :
           \E p \in 1..(w - 1) : trace[p].op = op /\ trace[p].err = ""
      /\ ~EmptyPublishableKey

\* C14 (as stated): with an empty publishable key ConfigureDotEnv returns an
\* error, without the authorization handshake and without writing server/.env;
\* the file is written only after the example file was read and the
\* publishable key, the API key, the device name and the signing secret were
\* obtained; on every error return server/.env holds its prior contents.
C14_EnvUntouchedOnError ==
  DotEnvReturned =>
    /\ EmptyPublishableKey =>
         /\ dotenvResult = ErrNoPublishableKey
         /\ ~Called("Authorize")
         /\ ~Called("Write")
    /\ WriteComesLast
    /\ dotenvResult # Nil => envFile = PriorEnv

\* C14 (amended): the same, except that the prior contents are kept on the
\* error returns that come before the write is attempted; a write that fails
\* may leave the file as it was or truncated.
C14_EnvUntouchedBeforeWrite ==
  DotEnvReturned =>
    /\ EmptyPublishableKey =>
         /\ dotenvResult = ErrNoPublishableKey
         /\ ~Called("Authorize")
         /\ ~Called("Write")
    /\ WriteComesLast
    /\ (dotenvResult # Nil /\ ~Called("Write")) => envFile = PriorEnv
    /\ (dotenvResult # Nil /\ Called("Write")) =>
         /\ dotenvResult = ErrEnvWrite
         /\ envFile \in {PriorEnv, TruncatedEnv}

C14_Witness ==
  /\ DotEnvReturned
  /\ EmptyPublishableKey
  /\ dotenvResult = ErrNoPublishableKey
  /\ envFile = PriorEnv

ValueOf(op) == trace[CHOOSE p \in 1..Len(trace) : trace[p].op = op].val

C16_DeleteForcesClone ==
  /\ DeleteReturned =>
       /\ disk = ledger0
       /\ mem = ledger0
       /\ deleteResult = Nil => ~cacheExists
  /\ (prevRun.deleted /\ InitializeReturned /\ Len(trace) >= 2) =>
       /\ trace[2] = Ev("Stat", "", "absent", ErrNotExist)
       /\ Len(trace) >= 3
       /\ trace[3].op = "Clone"
       /\ ~Called("Pull")

C16_Witness ==
  /\ prevRun.deleted
  /\ pc = "initialized"
  /\ Called("Clone")
  /\ cacheExists

\* C17: when a declared name is not in the catalog the gap-check returns
\* nothing, whatever it found before that name; SelectOptions then shows no
\* auto-creation prompt, creates nothing and returns, even when a declared
\* catalog resource has no identifier.
C17_UnknownNameDiscardsAll ==
  (InSelectOptions /\ Called("MissingRequiredResources") /\ ~AllResolve(sampleConfig)) =>
    /\ missingResources = <<>>
    /\ ~Prompted("auto-create")
    /\ ~Called("GetAPIKey")
    /\ ~Called("MakeRequest")
    /\ mem = ledger0
    /\ disk = ledger0
    /\ selectResult = Nil

C17_Witness ==
  /\ pc = "selected"
  /\ Called("MissingRequiredResources")
  /\ NamesOf(sampleConfig.RequiredResources) = <<BasicName, UnknownName>>
  /\ mem[BasicName] = ""

PromptFailed == \E p \in 1..Len(trace) : trace[p].op = "Prompt" /\ trace[p].err # ""

\* C18 (as stated): a prompt of SelectOptions that fails makes SelectOptions
\* return an error; a successful return means that the three axes were
\* resolved and the gap-check was made.
C18_PromptFailureIsReturned ==
  InSelectOptions =>
    /\ PromptFailed => (pc = "exit" /\ selectResult \in ErrorValues)
    /\ selectResult = Nil => Called("MissingRequiredResources")

\* C19 (as stated): over all invocations at most one resource is created on
\* the account for a catalog name, and a name for which a creation request
\* returned an identifier is not reported missing by a later gap-check.
C19_AtMostOneCreationPerName ==
  \A name \in CatalogNames :
    /\ created[name] <= 1
    /\ (JustChecked /\ created[name] >= 1) => name \notin Range(NamesOf(missingResources))

\* --------------------------------------------- gRPC interceptors, claim C20
HasRequiredHeader(ctx) == ctx.ok /\ requiredHeader \in ctx.md

\* C20: in the unary and in the stream interceptor the handler is invoked
\* only for a context whose metadata holds the sec-x-stripe-cli header; a
\* context without metadata ends with InvalidArgument, one whose metadata
\* lacks the header with Unauthenticated, and in both cases the handler is not
\* invoked and no telemetry context is built.
C20_HandlerBehindHeader ==
  \A p \in 1..Len(rpcLog) :
    LET c == rpcLog[p] IN
    /\ c.kind \in {"unary", "stream"}
    /\ c.handler => HasRequiredHeader(c.ctx)
    /\ ~c.ctx.ok =>
         /\ c.result = InvalidArgument
         /\ ~c.handler
         /\ ~c.telemetry
    /\ (c.ctx.ok /\ requiredHeader \notin c.ctx.md) =>
         /\ c.result = Unauthenticated
         /\ ~c.handler
         /\ ~c.telemetry

C20_Witness ==
  /\ Len(rpcLog) = 2
  /\ rpcLog[1] = Call("unary", [ok |-> FALSE, md |-> {}], FALSE, FALSE, InvalidArgument)
  /\ rpcLog[2] = Call("stream", [ok |-> TRUE, md |-> {"user-agent"}], FALSE, FALSE, Unauthenticated)

====
